---- MODULE Spec2Model ----
(***************************************************************************)
(* Tuxemon: the multiplayer menu of core/states/pc (host_game,             *)
(* scan_for_games, join_by_ip, join, MultiplayerSelect) and                *)
(* core/tools.round_to_divisible.                                          *)
(*                                                                         *)
(* The game runs its menu callbacks and its scheduled tasks on one main    *)
(* loop: a callback runs from its first line to its return before any      *)
(* other callback or task starts.  pc is the line the running callback has *)
(* reached ("idle": no callback is running).  The transport calls          *)
(* (listen, autodiscover, register) are modelled as returning normally.    *)
(***************************************************************************)
EXTENDS Integers, Sequences, FiniteSets

VARIABLES
    ishost,                  \* session.ishost
    isclient,                \* session.isclient
    serverListening,         \* session.server.listening
    clientListening,         \* session.client.listening
    enable_join_multiplayer, \* session.client.enable_join_multiplayer
    registered,              \* session.client.client.registered
    serverListens,           \* number of session.server.server.listen() calls
    clientListens,           \* number of session.client.client.listen() calls
    discovered_servers,      \* session.client.client.discovered_servers
    server_list,             \* session.client.server_list
    items,                   \* the menu items of MultiplayerSelect
    menuOpen,                \* a MultiplayerMenu is on the state stack
    selectOpen,              \* a MultiplayerSelect is on the state stack
    inputOpen,               \* an InputMenu is on the state stack
    alreadyHosting,          \* dialogs 'multiplayer_already_hosting' opened
    hostingReady,            \* dialogs 'multiplayer_hosting_ready' opened
    lastOp,                  \* the callback called last
    pc,                      \* the line the running callback has reached
    rx,                      \* round_to_divisible: the argument x, in 1/XDen
    rbase,                   \* round_to_divisible: the argument base
    halfEven,                \* round() rounds a tie to even (Python 3) or away from 0 (Python 2)
    r1,                      \* round_to_divisible(x, base)
    r2,                      \* round_to_divisible(r1, base)
    rstage                   \* how many times round_to_divisible was applied

flags == <<ishost, isclient, serverListening, clientListening, enable_join_multiplayer>>
net == <<registered, serverListens, clientListens, discovered_servers>>
ui == <<menuOpen, selectOpen, inputOpen, alreadyHosting, hostingReady, items>>
roundVars == <<rx, rbase, halfEven, r1, r2, rstage>>
sessionVars == <<flags, net, ui, server_list, lastOp, pc>>
vars == <<sessionVars, roundVars>>

\* ---------------------------------------------------------------- bounds
MaxServers == 2
MaxListens == 2
MaxNotices == 2
MaxAbsX == 40
MaxBase == 5
XDen == 2

Servers == {"self", "lan"}
NoServers == "multiplayer_no_servers"

\* sequences over S without repetition, of length at most n
RECURSIVE SeqsUpTo(_, _)
SeqsUpTo(S, n) ==
    IF n = 0 THEN {<<>>}
    ELSE LET shorter == SeqsUpTo(S, n - 1)
         IN  shorter \cup {Append(q, s) : q \in {p \in shorter : Len(p) = n - 1}, s \in S}

NoDup(q) == \A i, j \in 1..Len(q) : i # j => q[i] # q[j]

Discoveries == {q \in SeqsUpTo(Servers, Cardinality(Servers)) : NoDup(q)}

HostPcs == {"h_ishost", "h_slisten", "h_smark", "h_enable", "h_clisten",
            "h_cmark", "h_discover", "h_dialog"}
ScanPcs == {"s_mark", "s_listen", "s_push"}
JoinPcs == {"j_mark", "j_listen"}

\* ---------------------------------------------------------------- menu items
\* MenuItem(label, None, None, None): a new item is enabled
MenuItem(label) == [label |-> label, enabled |-> TRUE]

\* initialize_items without its else branch
initialize_items_no_placeholder(servers) ==
    [i \in 1..Len(servers) |-> MenuItem(servers[i])]

initialize_items(servers) ==
    IF servers # <<>>
    THEN [i \in 1..Len(servers) |-> MenuItem(servers[i])]
    ELSE <<[MenuItem(NoServers) EXCEPT !.enabled = FALSE]>>

\* ---------------------------------------------------------------- round_to_divisible
\* round(n / d) for d > 0, in exact arithmetic; a tie goes to the even
\* neighbour (Python 3) or away from zero (Python 2)
round(n, d, even) ==
    LET f == n \div d
        m == 2 * (n % d)
    IN  IF m < d THEN f
        ELSE IF m > d THEN f + 1
        ELSE IF even THEN (IF f % 2 = 0 THEN f ELSE f + 1)
        ELSE (IF f >= 0 THEN f + 1 ELSE f)

\* round_to_divisible without the multiplication by base
round_to_divisible_no_base(n, d, base, even) == round(n, d * base, even)

\* int(base * round(float(x) / base)) for x = n / d
round_to_divisible(n, d, base, even) == base * round(n, d * base, even)

\* ---------------------------------------------------------------- initial states
RoundIdle ==
    /\ rx = 0 /\ rbase = 1 /\ halfEven = TRUE /\ r1 = 0 /\ r2 = 0 /\ rstage = 0

UiIdle ==
    /\ menuOpen = TRUE /\ selectOpen = FALSE /\ inputOpen = FALSE
    /\ alreadyHosting = 0 /\ hostingReady = 0
    /\ items = <<>> /\ server_list = <<>> /\ discovered_servers = <<>>
    /\ lastOp = "none" /\ pc = "idle"

Init ==
    /\ ishost = FALSE /\ isclient = FALSE
    /\ serverListening = FALSE /\ clientListening = FALSE
    /\ enable_join_multiplayer = FALSE /\ registered = FALSE
    /\ serverListens = 0 /\ clientListens = 0
    /\ UiIdle /\ RoundIdle

InitAny ==
    /\ ishost \in BOOLEAN /\ isclient \in BOOLEAN
    /\ serverListening \in BOOLEAN /\ clientListening \in BOOLEAN
    /\ enable_join_multiplayer \in BOOLEAN /\ registered \in BOOLEAN
    /\ serverListens = (IF serverListening THEN 1 ELSE 0)
    /\ clientListens = (IF clientListening THEN 1 ELSE 0)
    /\ UiIdle /\ RoundIdle

\* ---------------------------------------------------------------- MultiplayerMenu
startup ==
    /\ pc = "idle" /\ ~menuOpen
    /\ menuOpen' = TRUE
    /\ UNCHANGED <<flags, net, selectOpen, inputOpen, alreadyHosting, hostingReady,
                   items, server_list, lastOp, pc, roundVars>>

\* host_game that does not look at server.listening
host_game_no_listening_check ==
    /\ pc = "idle" /\ menuOpen
    /\ lastOp' = "host_game"
    /\ pc' = (IF ~isclient THEN "h_ishost" ELSE "idle")
    /\ UNCHANGED <<flags, net, ui, server_list, roundVars>>

\* host_game with `else` for `elif not self.session.isclient`
host_game_no_client_check ==
    /\ pc = "idle" /\ menuOpen
    /\ lastOp' = "host_game"
    /\ IF serverListening
       THEN /\ alreadyHosting < MaxNotices
            /\ menuOpen' = FALSE
            /\ alreadyHosting' = alreadyHosting + 1
            /\ pc' = "idle"
       ELSE /\ pc' = "h_ishost"
            /\ UNCHANGED <<menuOpen, alreadyHosting>>
    /\ UNCHANGED <<flags, net, selectOpen, inputOpen, hostingReady, items,
                   server_list, roundVars>>

host_game ==
    /\ pc = "idle" /\ menuOpen
    /\ lastOp' = "host_game"
    /\ IF serverListening
       THEN /\ alreadyHosting < MaxNotices
            /\ menuOpen' = FALSE
            /\ alreadyHosting' = alreadyHosting + 1
            /\ pc' = "idle"
       ELSE /\ pc' = (IF ~isclient THEN "h_ishost" ELSE "idle")
            /\ UNCHANGED <<menuOpen, alreadyHosting>>
    /\ UNCHANGED <<flags, net, selectOpen, inputOpen, hostingReady, items,
                   server_list, roundVars>>

\* line 97 setting both role flags
host_set_both_roles ==
    /\ pc = "h_ishost"
    /\ ishost' = TRUE
    /\ isclient' = TRUE
    /\ pc' = "h_slisten"
    /\ UNCHANGED <<serverListening, clientListening, enable_join_multiplayer,
                   net, ui, server_list, lastOp, roundVars>>

\* line 97 left out
host_set_ishost_forgotten ==
    /\ pc = "h_ishost"
    /\ pc' = "h_slisten"
    /\ UNCHANGED <<flags, net, ui, server_list, lastOp, roundVars>>

host_set_ishost ==
    /\ pc = "h_ishost"
    /\ ishost' = TRUE
    /\ pc' = "h_slisten"
    /\ UNCHANGED <<isclient, serverListening, clientListening, enable_join_multiplayer,
                   net, ui, server_list, lastOp, roundVars>>

host_server_listen ==
    /\ pc = "h_slisten"
    /\ serverListens' = serverListens + 1
    /\ pc' = "h_smark"
    /\ UNCHANGED <<flags, registered, clientListens, discovered_servers, ui,
                   server_list, lastOp, roundVars>>

host_mark_server ==
    /\ pc = "h_smark"
    /\ serverListening' = TRUE
    /\ pc' = "h_enable"
    /\ UNCHANGED <<ishost, isclient, clientListening, enable_join_multiplayer,
                   net, ui, server_list, lastOp, roundVars>>

host_enable_join ==
    /\ pc = "h_enable"
    /\ enable_join_multiplayer' = TRUE
    /\ pc' = "h_clisten"
    /\ UNCHANGED <<ishost, isclient, serverListening, clientListening,
                   net, ui, server_list, lastOp, roundVars>>

host_client_listen ==
    /\ pc = "h_clisten"
    /\ clientListens' = clientListens + 1
    /\ pc' = "h_cmark"
    /\ UNCHANGED <<flags, registered, serverListens, discovered_servers, ui,
                   server_list, lastOp, roundVars>>

host_mark_client ==
    /\ pc = "h_cmark"
    /\ clientListening' = TRUE
    /\ pc' = "h_discover"
    /\ UNCHANGED <<ishost, isclient, serverListening, enable_join_multiplayer,
                   net, ui, server_list, lastOp, roundVars>>

\* the loop without its register() calls
host_discover_no_register(found, accepted) ==
    /\ pc = "h_discover" /\ ~registered
    /\ found \in Discoveries
    /\ discovered_servers' = found
    /\ UNCHANGED <<flags, registered, serverListens, clientListens, ui, server_list,
                   lastOp, pc, roundVars>>

\* one pass of the while loop: autodiscover finds `found`, each is registered
\* with, and `accepted` tells whether one of them has accepted the client
host_discover(found, accepted) ==
    /\ pc = "h_discover" /\ ~registered
    /\ found \in Discoveries
    /\ discovered_servers' = found
    /\ registered' = (found # <<>> /\ accepted)
    /\ UNCHANGED <<flags, serverListens, clientListens, ui, server_list, lastOp, pc,
                   roundVars>>

\* `if` for `while`: the loop is left after at most one pass
host_close_menu_unregistered ==
    /\ pc = "h_discover"
    /\ menuOpen' = FALSE
    /\ pc' = "h_dialog"
    /\ UNCHANGED <<flags, net, selectOpen, inputOpen, alreadyHosting, hostingReady,
                   items, server_list, lastOp, roundVars>>

host_close_menu ==
    /\ pc = "h_discover" /\ registered
    /\ menuOpen' = FALSE
    /\ pc' = "h_dialog"
    /\ UNCHANGED <<flags, net, selectOpen, inputOpen, alreadyHosting, hostingReady,
                   items, server_list, lastOp, roundVars>>

host_notify ==
    /\ pc = "h_dialog"
    /\ hostingReady' = hostingReady + 1
    /\ pc' = "idle"
    /\ UNCHANGED <<flags, net, menuOpen, selectOpen, inputOpen, alreadyHosting,
                   items, server_list, lastOp, roundVars>>

scan_for_games ==
    /\ pc = "idle" /\ menuOpen
    /\ lastOp' = "scan_for_games"
    /\ IF ~ishost
       THEN /\ clientListens < MaxListens
            /\ enable_join_multiplayer' = TRUE
            /\ pc' = "s_mark"
       ELSE /\ pc' = "s_push"
            /\ UNCHANGED enable_join_multiplayer
    /\ UNCHANGED <<ishost, isclient, serverListening, clientListening,
                   net, ui, server_list, roundVars>>

scan_mark_listening ==
    /\ pc = "s_mark"
    /\ clientListening' = TRUE
    /\ pc' = "s_listen"
    /\ UNCHANGED <<ishost, isclient, serverListening, enable_join_multiplayer,
                   net, ui, server_list, lastOp, roundVars>>

\* line 123 left out
scan_listen_forgotten ==
    /\ pc = "s_listen"
    /\ pc' = "s_push"
    /\ UNCHANGED <<flags, net, ui, server_list, lastOp, roundVars>>

scan_client_listen ==
    /\ pc = "s_listen"
    /\ clientListens' = clientListens + 1
    /\ pc' = "s_push"
    /\ UNCHANGED <<flags, registered, serverListens, discovered_servers, ui,
                   server_list, lastOp, roundVars>>

\* push_state("MultiplayerSelect") runs MultiplayerSelect.startup, which
\* schedules reload_items
scan_push_select ==
    /\ pc = "s_push"
    /\ selectOpen' = TRUE
    /\ pc' = "idle"
    /\ UNCHANGED <<flags, net, menuOpen, inputOpen, alreadyHosting, hostingReady,
                   items, server_list, lastOp, roundVars>>

join_by_ip ==
    /\ pc = "idle" /\ menuOpen
    /\ lastOp' = "join_by_ip"
    /\ inputOpen' = TRUE
    /\ UNCHANGED <<flags, net, menuOpen, selectOpen, alreadyHosting, hostingReady,
                   items, server_list, pc, roundVars>>

\* join without its ishost check
join_no_host_check ==
    /\ pc = "idle"
    /\ lastOp' = "join"
    /\ clientListens < MaxListens
    /\ enable_join_multiplayer' = TRUE
    /\ pc' = "j_mark"
    /\ UNCHANGED <<ishost, isclient, serverListening, clientListening,
                   net, ui, server_list, roundVars>>

join ==
    /\ pc = "idle"
    /\ lastOp' = "join"
    /\ IF ishost
       THEN UNCHANGED <<enable_join_multiplayer, pc>>
       ELSE /\ clientListens < MaxListens
            /\ enable_join_multiplayer' = TRUE
            /\ pc' = "j_mark"
    /\ UNCHANGED <<ishost, isclient, serverListening, clientListening,
                   net, ui, server_list, roundVars>>

join_mark_listening ==
    /\ pc = "j_mark"
    /\ clientListening' = TRUE
    /\ pc' = "j_listen"
    /\ UNCHANGED <<ishost, isclient, serverListening, enable_join_multiplayer,
                   net, ui, server_list, lastOp, roundVars>>

join_client_listen ==
    /\ pc = "j_listen"
    /\ clientListens' = clientListens + 1
    /\ pc' = "idle"
    /\ UNCHANGED <<flags, registered, serverListens, discovered_servers, ui,
                   server_list, lastOp, roundVars>>

\* ---------------------------------------------------------------- MultiplayerSelect
\* the task scheduled by MultiplayerSelect.startup: the menu's items are
\* rebuilt from initialize_items
reload_items ==
    /\ pc = "idle" /\ selectOpen
    /\ lastOp' = "reload_items"
    /\ items' = initialize_items(server_list)
    /\ UNCHANGED <<flags, net, menuOpen, selectOpen, inputOpen, alreadyHosting,
                   hostingReady, server_list, pc, roundVars>>

\* ---------------------------------------------------------------- the discovery mechanism
\* session.client.server_list grows while the client listens
server_found(s) ==
    /\ pc = "idle" /\ clientListening
    /\ Len(server_list) < MaxServers
    /\ \A i \in 1..Len(server_list) : server_list[i] # s
    /\ server_list' = Append(server_list, s)
    /\ UNCHANGED <<flags, net, ui, lastOp, pc, roundVars>>

\* and is cleared when a new scan starts
server_list_cleared ==
    /\ pc = "idle" /\ clientListening
    /\ server_list # <<>>
    /\ server_list' = <<>>
    /\ UNCHANGED <<flags, net, ui, lastOp, pc, roundVars>>

\* ---------------------------------------------------------------- specifications
HostSteps ==
    \/ host_set_ishost
    \/ host_server_listen
    \/ host_mark_server
    \/ host_enable_join
    \/ host_client_listen
    \/ host_mark_client
    \/ host_close_menu
    \/ host_notify

Next ==
    \/ startup
    \/ host_game
    \/ HostSteps
    \/ \E found \in Discoveries : host_discover(found, FALSE)
    \/ \E found \in Discoveries : host_discover(found, TRUE)
    \/ scan_for_games
    \/ scan_mark_listening
    \/ scan_client_listen
    \/ scan_push_select
    \/ join_by_ip
    \/ join
    \/ join_mark_listening
    \/ join_client_listen
    \/ reload_items
    \/ \E s \in Servers : server_found(s)
    \/ server_list_cleared

\* from an idle session
Spec == Init /\ [][Next]_vars

\* from any session
SpecAny == InitAny /\ [][Next]_vars

\* a running callback runs on, and autodiscover eventually finds a server
\* that accepts the client
Running ==
    \/ HostSteps
    \/ scan_mark_listening \/ scan_client_listen \/ scan_push_select
    \/ join_mark_listening \/ join_client_listen

Registering == \E found \in Discoveries : host_discover(found, TRUE) /\ registered'

FairSpec ==
    /\ Init /\ [][Next]_vars
    /\ WF_vars(Running)
    /\ WF_vars(Registering)

\* ---------------------------------------------------------------- round_to_divisible, applied twice
RoundInit ==
    /\ ishost = FALSE /\ isclient = FALSE
    /\ serverListening = FALSE /\ clientListening = FALSE
    /\ enable_join_multiplayer = FALSE /\ registered = FALSE
    /\ serverListens = 0 /\ clientListens = 0
    /\ UiIdle
    /\ rx \in -MaxAbsX..MaxAbsX
    /\ rbase \in 1..MaxBase
    /\ halfEven \in BOOLEAN
    /\ r1 = 0 /\ r2 = 0 /\ rstage = 0

round_first ==
    /\ rstage = 0
    /\ r1' = round_to_divisible(rx, XDen, rbase, halfEven)
    /\ rstage' = 1
    /\ UNCHANGED <<sessionVars, rx, rbase, halfEven, r2>>

round_second ==
    /\ rstage = 1
    /\ r2' = round_to_divisible(r1 * XDen, XDen, rbase, halfEven)
    /\ rstage' = 2
    /\ UNCHANGED <<sessionVars, rx, rbase, halfEven, r1>>

RoundNext == round_first \/ round_second

RoundSpec == RoundInit /\ [][RoundNext]_vars

\* ---------------------------------------------------------------- claims

\* C1: from an idle session, whatever callbacks are called, ishost and
\* isclient are never both true.
C1_RoleExclusive == ~(ishost /\ isclient)

\* all four callbacks have been called and the session hosts
C1_Witness ==
    /\ ishost /\ pc = "idle" /\ lastOp = "join"
    /\ selectOpen /\ inputOpen /\ hostingReady = 1

\* C2: host_game called while the server listens does not call
\* server.listen(), opens exactly one 'already hosting' dialog, returns, and
\* changes no session flag.
C2_AlreadyHosting ==
    [][(host_game /\ serverListening) =>
          /\ serverListens' = serverListens
          /\ alreadyHosting' = alreadyHosting + 1
          /\ hostingReady' = hostingReady
          /\ pc' = "idle"
          /\ UNCHANGED flags]_vars

C2_Witness ==
    /\ lastOp = "host_game" /\ pc = "idle" /\ serverListening
    /\ alreadyHosting = 1 /\ hostingReady = 0 /\ serverListens = 1

\* C3: when host_game returns from its hosting branch, ishost,
\* server.listening, client.listening and registered are true, the menu is
\* closed and one 'hosting ready' dialog was opened; inside host_game the menu
\* is closed and the dialog opened only when registered is true.
C3_HostCompleted ==
    [][/\ (pc \in HostPcs /\ pc' = "idle") =>
              /\ ishost' /\ serverListening' /\ clientListening' /\ registered'
              /\ ~menuOpen'
              /\ hostingReady' = hostingReady + 1
       /\ (pc \in HostPcs /\ (menuOpen' # menuOpen \/ hostingReady' # hostingReady)) =>
              registered]_vars

C3_Witness ==
    /\ lastOp = "host_game" /\ pc = "idle" /\ hostingReady = 1
    /\ ishost /\ serverListening /\ clientListening /\ registered /\ ~menuOpen
    /\ discovered_servers # <<>>

\* C4: with isclient true, no step of host_game changes ishost or isclient.
C4_ClientCannotHost ==
    [][(isclient /\ (host_game \/ pc \in HostPcs)) =>
          (ishost' = ishost /\ isclient' = isclient)]_vars

C4_Witness ==
    /\ lastOp = "host_game" /\ pc = "idle" /\ isclient
    /\ ~ishost /\ ~serverListening /\ serverListens = 0

\* C5: with ishost true, join returns at once and changes no session flag and
\* calls no listen(); with ishost false it sets enable_join_multiplayer and
\* client.listening and calls client.listen() once.
C5_Join ==
    [][/\ (ishost /\ (join \/ pc \in JoinPcs)) =>
              (pc' = "idle" /\ UNCHANGED <<flags, net>>)
       /\ (~ishost /\ join) =>
              (pc' \in JoinPcs /\ clientListens' = clientListens)
       /\ (pc \in JoinPcs /\ pc' # "idle") => clientListens' = clientListens
       /\ (pc \in JoinPcs /\ pc' = "idle") =>
              /\ enable_join_multiplayer' /\ clientListening'
              /\ clientListens' = clientListens + 1
              /\ UNCHANGED <<ishost, isclient, serverListening>>]_vars

C5_Witness ==
    /\ lastOp = "join" /\ pc = "idle" /\ ishost
    /\ ~enable_join_multiplayer /\ ~clientListening /\ clientListens = 0

\* C6: from an idle session, server.listening is true only when ishost is,
\* at every line of every callback.
C6_ListeningImpliesHost == serverListening => ishost

C6_Witness == pc = "h_enable" /\ serverListening /\ ishost /\ ~clientListening

\* C7: whenever the reload_items task runs, a listening flag that is set has
\* its listen() call made.
C7_RefreshSeesWhole ==
    [][reload_items =>
          /\ (serverListening => serverListens > 0)
          /\ (clientListening => clientListens > 0)]_vars

C7_Witness ==
    /\ lastOp = "reload_items" /\ clientListening /\ clientListens > 0
    /\ ~serverListening /\ items # <<>>

\* C8: a refresh produces the single disabled placeholder when server_list is
\* empty, and otherwise one enabled item per server, in order.
C8_Items ==
    [][reload_items =>
          /\ (server_list = <<>>) =>
                 items' = <<[label |-> NoServers, enabled |-> FALSE]>>
          /\ (server_list # <<>>) =>
                 /\ Len(items') = Len(server_list)
                 /\ \A i \in 1..Len(server_list) :
                        /\ items'[i].label = server_list[i]
                        /\ items'[i].enabled]_vars

C8_Witness ==
    /\ lastOp = "reload_items" /\ Len(server_list) = 2 /\ Len(items) = 2
    /\ \A i \in 1..2 : items[i].label = server_list[i] /\ items[i].enabled

\* C9: round_to_divisible gives a multiple of base, and applied to its own
\* result gives it back.
C9_Idempotent ==
    /\ (rstage >= 1) => (r1 % rbase = 0)
    /\ (rstage = 2) => (r2 = r1)

\* a tie (x / base = k + 1/2) rounded up to a non-zero multiple
C9_Witness ==
    /\ rstage = 2 /\ rbase = 4 /\ rx = 6 * XDen /\ r1 = 8 /\ r2 = 8

\* C10: once in its hosting branch host_game returns, the menu closed and
\* the dialog opened; and while registered is false in the discovery loop the
\* only step is another pass of the loop.
C10_HostTerminates ==
    /\ (pc \in HostPcs) ~>
           (pc = "idle" /\ lastOp = "host_game" /\ ~menuOpen /\ hostingReady = 1)
    /\ [][(pc = "h_discover" /\ ~registered) =>
             /\ pc' = "h_discover"
             /\ UNCHANGED <<flags, serverListens, clientListens, ui, server_list,
                            lastOp, roundVars>>]_vars

\* the loop has gone round without registering
C10_Witness ==
    /\ pc = "h_discover" /\ ~registered /\ discovered_servers # <<>>

====
